---- MODULE Spec2Model ----
(***************************************************************************)
(* Frame-indexed evaluation of the Motionlize video configuration:         *)
(* MainComposition (timeline of Sequences), Scene / TechScene (the two     *)
(* diagram evaluators of the repository), the GeneratorForm submit handler *)
(* and the post-processing of generateVideoScript.                         *)
(*                                                                         *)
(* Pixel coordinates and progress values are exact rationals [n, d] in     *)
(* lowest terms, so that 32.5 percent is representable.  The value of      *)
(* remotion's spring() is carried as its frame argument; for the reveal of *)
(* the edges and the entrance of a standard scene it is also computed,     *)
(* from its values in thousandths.  The requests of the form that are in   *)
(* flight are kept in the order they were started.                         *)
(***************************************************************************)
EXTENDS Integers, Sequences, FiniteSets, TLC

VARIABLES videoData, isGenerating, topic, aspectRatio, error, pending,
          techVariant, serviceVariant, frame, currentFrame, render, probe

vars == <<videoData, isGenerating, topic, aspectRatio, error, pending,
          techVariant, serviceVariant, frame, currentFrame, render, probe>>

appVars == <<videoData, isGenerating, topic, aspectRatio, error, pending>>

buildVars == <<techVariant, serviceVariant>>

(***************************************************************************)
(* Bounds of the model.                                                    *)
(***************************************************************************)
MaxScenes == 3

MaxDur == 2

MaxRespScenes == 2

MaxEdges == 2

MaxActions == 2

MaxDelay == 2

MaxActDur == 2

(***************************************************************************)
(* Optional values: an absent field is the empty sequence, a present one a *)
(* one-element sequence.                                                   *)
(***************************************************************************)
None == <<>>

Some(v) == <<v>>

IsSome(o) == o # <<>>

Val(o) == o[1]

\* An absent or empty string id, as tested by `!action.fromId`.
Undefined == "undefined"

Falsy(s) == s = Undefined \/ s = ""

(***************************************************************************)
(* Exact rational arithmetic.                                              *)
(***************************************************************************)
Abs(n) == IF n < 0 THEN -n ELSE n

RECURSIVE GCD(_, _)
GCD(a, b) == IF b = 0 THEN a ELSE GCD(b, a % b)

Rat(n, d) ==
    LET g == GCD(Abs(n), Abs(d))
        s == IF d < 0 THEN -1 ELSE 1
    IN  [n |-> (s * n) \div g, d |-> (s * d) \div g]

RInt(k) == [n |-> k, d |-> 1]

RAdd(a, b) == Rat(a.n * b.d + b.n * a.d, a.d * b.d)

RSub(a, b) == Rat(a.n * b.d - b.n * a.d, a.d * b.d)

RMul(a, b) == Rat(a.n * b.n, a.d * b.d)

RLeq(a, b) == a.n * b.d <= b.n * a.d

RMin(a, b) == IF RLeq(a, b) THEN a ELSE b

RMax(a, b) == IF RLeq(a, b) THEN b ELSE a

Min(S) == CHOOSE x \in S : \A y \in S : x <= y

RECURSIVE SumDur(_)
SumDur(scenes) ==
    IF scenes = <<>> THEN 0
    ELSE SumDur(SubSeq(scenes, 1, Len(scenes) - 1))
         + scenes[Len(scenes)].durationInFrames

(***************************************************************************)
(* remotion: interpolate(input, [0, 1], [a, b]) with the default           *)
(* extrapolation, and the percentage to pixel mapping of both TechScenes.  *)
(***************************************************************************)
interpolate(input, a, b) == RAdd(a, RMul(input, RSub(b, a)))

toPx(pct, dim) == Rat(pct * dim, 100)

\* remotion: spring({frame, fps, config}) from 0 to 1, given by its values
\* in thousandths at the frames 1, 2, ... of a table; it is 0 up to frame 0
\* (no step has run) and has settled at 1 past the table.
\* A spring that has already moved on the frame it starts.
springEager(table, frameArg) ==
    IF frameArg < 0 THEN RInt(0)
    ELSE IF frameArg >= Len(table) THEN RInt(1)
    ELSE Rat(table[frameArg + 1], 1000)

spring(table, frameArg) ==
    IF frameArg <= 0 THEN RInt(0)
    ELSE IF frameArg > Len(table) THEN RInt(1)
    ELSE Rat(table[frameArg], 1000)

(***************************************************************************)
(* The default configuration of the application.                           *)
(***************************************************************************)
Node(id, type, label, x, y) ==
    [id |-> id, type |-> type, label |-> label, x |-> x, y |-> y]

Edge(fromId, toId) == [fromId |-> fromId, toId |-> toId]

Packet(startDelay, duration, fromId, toId, label) ==
    [type |-> "packet", startDelay |-> startDelay, duration |-> duration,
     fromId |-> fromId, toId |-> toId, targetId |-> Undefined, label |-> label]

Targeted(type, startDelay, duration, targetId, label) ==
    [type |-> type, startDelay |-> startDelay, duration |-> duration,
     fromId |-> Undefined, toId |-> Undefined, targetId |-> targetId,
     label |-> label]

Diagram(nodes, edges, actions) ==
    [nodes |-> Some(nodes), edges |-> Some(edges), actions |-> Some(actions)]

SceneData(type, durationInFrames, diagramConfig) ==
    [type |-> type, durationInFrames |-> durationInFrames,
     diagramConfig |-> diagramConfig]

RedisDiagram ==
    Diagram(
      << Node("redis", "database", "Redis Master", 50, 50),
         Node("clientA", "client", "Client A", 50, 15),
         Node("clientB", "client", "Client B", 80, 80),
         Node("clientC", "client", "Client C", 20, 80) >>,
      << Edge("clientA", "redis"), Edge("clientB", "redis"),
         Edge("clientC", "redis") >>,
      << Packet(30, 40, "clientA", "redis", "SETNX"),
         Packet(35, 40, "clientB", "redis", "SETNX"),
         Packet(40, 40, "clientC", "redis", "SETNX"),
         Targeted("highlight", 70, 20, "redis", Undefined),
         Targeted("show_label", 75, 100, "redis", "LOCKED"),
         Packet(90, 30, "redis", "clientA", "OK"),
         Packet(95, 30, "redis", "clientB", "FAIL"),
         Packet(100, 30, "redis", "clientC", "FAIL") >>)

INITIAL_DATA ==
    [topic |-> <<"Redis Distributed Lock">>,
     totalDuration |-> 240,
     width |-> 1080,
     height |-> 1080,
     fps |-> 30,
     scenes |-> << SceneData("tech_diagram", 240, Some(RedisDiagram)) >>]

(***************************************************************************)
(* Helpers shared by the two TechScene evaluators.                         *)
(***************************************************************************)
\* A lookup that falls back to the first node when the id is unknown.
nodeIndexOrFirst(nodes, id) ==
    LET S == {i \in DOMAIN nodes : nodes[i].id = id}
    IN  IF S # {} THEN Min(S) ELSE IF nodes = <<>> THEN 0 ELSE 1

\* nodes.find(n => n.id === id): index of the first node with that id, 0
\* when find returns undefined.
nodeIndex(nodes, id) ==
    LET S == {i \in DOMAIN nodes : nodes[i].id = id}
    IN  IF S = {} THEN 0 ELSE Min(S)

\* const baseSize = Math.min(width, height) * 0.06
baseSize(width, height) ==
    Rat((IF width <= height THEN width ELSE height) * 6, 100)

\* The elapsed frames clamped without the division by the duration.
packetProgressUnscaled(action, f) ==
    RMin(RMax(RInt(f - action.startDelay), RInt(0)), RInt(1))

\* (frame - action.startDelay) / action.duration, clamped to [0, 1]
packetProgress(action, f) ==
    LET rawProgress == Rat(f - action.startDelay, action.duration)
    IN  RMin(RMax(rawProgress, RInt(0)), RInt(1))

\* Position of a packet between the pixel anchors of its two nodes.
packetPosition(from, to, action, f, width, height) ==
    LET progress == packetProgress(action, f)
        startX == toPx(from.x, width)
        startY == toPx(from.y, height)
        endX == toPx(to.x, width)
        endY == toPx(to.y, height)
    IN  [left |-> interpolate(progress, startX, endX),
         top |-> interpolate(progress, startY, endY)]

\* The two early returns that bound the life of a packet.
packetNotYet(action, f) == f < action.startDelay

\* The packet dropped already on the frame at which its window ends.
packetGoneAtEnd(action, f) == f >= action.startDelay + action.duration

packetGone(action, f) == f > action.startDelay + action.duration

\* if (!from || !to) return null
edgeResolved(nodes, edge) ==
    nodeIndex(nodes, edge.fromId) # 0 /\ nodeIndex(nodes, edge.toId) # 0

(***************************************************************************)
(* TechScene of unnamed/part_000: edges, nodes, packets, popup labels.     *)
(***************************************************************************)
EdgeStagger == 3

NodeStagger == 5

\* spring({frame, fps, config: {stiffness: 50}}) at 30 fps: mass 1 and
\* damping 10 by default, damping ratio below 1, no overshoot clamping.
progress ==
    << 25, 88, 177, 279, 386, 492, 591, 682, 762, 830, 887, 933, 969, 997,
       1017, 1030, 1038, 1042, 1043, 1042, 1039, 1035, 1030, 1026, 1021,
       1017, 1013, 1010, 1007, 1005, 1003, 1001, 1000, 999, 999, 998, 998,
       998, 998, 998, 999, 999, 999, 999, 999, 999 >>

edgeEntry(nodes, edge, i, f, width, height) ==
    IF ~edgeResolved(nodes, edge) THEN None
    ELSE LET from == nodes[nodeIndex(nodes, edge.fromId)]
             to == nodes[nodeIndex(nodes, edge.toId)]
         IN  Some([x1 |-> toPx(from.x, width), y1 |-> toPx(from.y, height),
                   x2 |-> toPx(to.x, width), y2 |-> toPx(to.y, height),
                   springFrame |-> f - (i - 1) * EdgeStagger,
                   ceiling |-> Rat(4, 10),
                   opacity |-> interpolate(
                                 spring(progress, f - (i - 1) * EdgeStagger),
                                 RInt(0), Rat(4, 10))])

\* The window closed one frame late.
isActiveOnInclusive(a, node, f) ==
    /\ a.type \in {"highlight", "pulse"}
    /\ a.targetId = node.id
    /\ f >= a.startDelay
    /\ f <= a.startDelay + a.duration

\* The predicate handed to actions.find for a node.
isActiveOn(a, node, f) ==
    /\ a.type \in {"highlight", "pulse"}
    /\ a.targetId = node.id
    /\ f >= a.startDelay
    /\ f < a.startDelay + a.duration

\* const scaleVal = interpolate(entrance, [0, 1], [0, 1])
\*                  + (activeAction ? 0.15 : 0) + pulseScale
scaleVal(entrance, emphasis, pulseScale) ==
    RAdd(RAdd(interpolate(entrance, RInt(0), RInt(1)), emphasis), pulseScale)

\* actions.find(...): index of the first matching action, 0 for undefined.
activeAction(actions, node, f) ==
    LET S == {k \in DOMAIN actions : isActiveOn(actions[k], node, f)}
    IN  IF S = {} THEN 0 ELSE Min(S)

nodeEntry(actions, node, i, f, width, height) ==
    LET k == activeAction(actions, node, f)
        isPulse == k # 0 /\ actions[k].type = "pulse"
    IN  [id |-> node.id,
         left |-> toPx(node.x, width),
         top |-> toPx(node.y, height),
         springFrame |-> f - (i - 1) * NodeStagger,
         active |-> k # 0,
         by |-> k,
         emphasis |-> IF k # 0 THEN Rat(15, 100) ELSE RInt(0),
         multiplicative |-> FALSE,
         pulseArg |-> IF isPulse THEN Some(f - actions[k].startDelay) ELSE None]

packetEntry(nodes, action, f, width, height) ==
    IF action.type # "packet" \/ Falsy(action.fromId) \/ Falsy(action.toId)
    THEN None
    ELSE IF packetNotYet(action, f) THEN None
    ELSE IF packetGone(action, f) THEN None
    ELSE IF nodeIndex(nodes, action.fromId) = 0
            \/ nodeIndex(nodes, action.toId) = 0 THEN None
    ELSE LET from == nodes[nodeIndex(nodes, action.fromId)]
             to == nodes[nodeIndex(nodes, action.toId)]
             pos == packetPosition(from, to, action, f, width, height)
         IN  Some([left |-> pos.left, top |-> pos.top,
                   fromId |-> action.fromId, toId |-> action.toId,
                   text |-> action.label])

\* The label taken down again when its duration has elapsed.
labelNotYetOrOver(action, f) ==
    f < action.startDelay \/ f >= action.startDelay + action.duration

\* The only early return on the frame in the pass over the popup labels.
labelNotYet(action, f) == f < action.startDelay

labelEntry(nodes, action, f, width, height) ==
    IF action.type # "show_label" \/ Falsy(action.targetId) THEN None
    ELSE IF labelNotYet(action, f) THEN None
    ELSE IF nodeIndex(nodes, action.targetId) = 0 THEN None
    ELSE LET target == nodes[nodeIndex(nodes, action.targetId)]
         IN  Some([left |-> toPx(target.x, width),
                   top |-> RSub(toPx(target.y, height),
                                RMul(baseSize(width, height), RInt(2))),
                   targetId |-> action.targetId,
                   springFrame |-> f - action.startDelay,
                   text |-> action.label])

\* const { nodes = [], edges = [], actions = [] } = data.diagramConfig
orEmpty(o) == IF IsSome(o) THEN Val(o) ELSE <<>>

TechScene(data, f, width, height) ==
    IF ~IsSome(data.diagramConfig) THEN None
    ELSE LET cfg == Val(data.diagramConfig)
             nodes == orEmpty(cfg.nodes)
             edges == orEmpty(cfg.edges)
             actions == orEmpty(cfg.actions)
         IN  Some([edges |-> [i \in DOMAIN edges |->
                                edgeEntry(nodes, edges[i], i, f, width, height)],
                   nodes |-> [i \in DOMAIN nodes |->
                                nodeEntry(actions, nodes[i], i, f, width, height)],
                   packets |-> [i \in DOMAIN actions |->
                                packetEntry(nodes, actions[i], f, width, height)],
                   labels |-> [i \in DOMAIN actions |->
                                labelEntry(nodes, actions[i], f, width, height)]])

(***************************************************************************)
(* TechScene of components/RemotionVideo/Composition.tsx: edges, nodes     *)
(* and one pass over the actions that yields packets and labels.           *)
(***************************************************************************)
EdgeStaggerC == 5

NodeStaggerC == 10

\* spring({frame, fps, config: {damping: 200}}) at 30 fps: mass 1 and
\* stiffness 100 by default, damping ratio above 1.
lineProgress ==
    << 45, 144, 264, 385, 496, 594, 677, 745, 801, 845, 881, 908, 930, 947,
       960, 969, 977, 983, 987, 990, 993, 995, 996, 997, 998, 998, 999, 999,
       999 >>

edgeEntryC(nodes, edge, i, f, width, height) ==
    IF ~edgeResolved(nodes, edge) THEN None
    ELSE LET from == nodes[nodeIndex(nodes, edge.fromId)]
             to == nodes[nodeIndex(nodes, edge.toId)]
         IN  Some([x1 |-> toPx(from.x, width), y1 |-> toPx(from.y, height),
                   x2 |-> toPx(to.x, width), y2 |-> toPx(to.y, height),
                   springFrame |-> f - (i - 1) * EdgeStaggerC,
                   ceiling |-> Rat(5, 10),
                   opacity |-> interpolate(
                                 spring(lineProgress, f - (i - 1) * EdgeStaggerC),
                                 RInt(0), Rat(5, 10))])

isHighlightOn(a, node, f) ==
    /\ a.type = "highlight"
    /\ a.targetId = node.id
    /\ f >= a.startDelay
    /\ f < a.startDelay + a.duration

\* const finalScale = interpolate(scale, [0, 1], [0, 1]) * highlightScale
finalScale(scale, highlightScale) ==
    RMul(interpolate(scale, RInt(0), RInt(1)), highlightScale)

activeHighlight(actions, node, f) ==
    LET S == {k \in DOMAIN actions : isHighlightOn(actions[k], node, f)}
    IN  IF S = {} THEN 0 ELSE Min(S)

nodeEntryC(actions, node, i, f, width, height) ==
    LET k == activeHighlight(actions, node, f)
    IN  [id |-> node.id,
         left |-> toPx(node.x, width),
         top |-> toPx(node.y, height),
         springFrame |-> f - (i - 1) * NodeStaggerC,
         active |-> k # 0,
         by |-> k,
         emphasis |-> IF k # 0 THEN Rat(12, 10) ELSE RInt(1),
         multiplicative |-> TRUE,
         pulseArg |-> None]

\* One step of actions.map: a packet entry, a label entry, or null.
actionEntryC(nodes, action, f, width, height) ==
    IF f < action.startDelay THEN None
    ELSE IF packetGone(action, f) /\ action.type = "packet" THEN None
    ELSE IF action.type = "packet" /\ ~Falsy(action.fromId)
            /\ ~Falsy(action.toId)
    THEN IF nodeIndex(nodes, action.fromId) = 0
            \/ nodeIndex(nodes, action.toId) = 0 THEN None
         ELSE LET from == nodes[nodeIndex(nodes, action.fromId)]
                  to == nodes[nodeIndex(nodes, action.toId)]
                  pos == packetPosition(from, to, action, f, width, height)
              IN  Some([kind |-> "packet",
                        entry |-> [left |-> pos.left, top |-> pos.top,
                                   fromId |-> action.fromId,
                                   toId |-> action.toId,
                                   text |-> IF Falsy(action.label) THEN "DATA"
                                            ELSE action.label]])
    ELSE IF action.type = "show_label" /\ ~Falsy(action.targetId)
    THEN IF nodeIndex(nodes, action.targetId) = 0 THEN None
         ELSE LET target == nodes[nodeIndex(nodes, action.targetId)]
              IN  Some([kind |-> "label",
                        entry |-> [left |-> RAdd(toPx(target.x, width),
                                                 baseSize(width, height)),
                                   top |-> RSub(toPx(target.y, height),
                                                baseSize(width, height)),
                                   targetId |-> action.targetId,
                                   springFrame |-> f - action.startDelay,
                                   text |-> action.label]])
    ELSE None

ofKind(e, kind) == IF IsSome(e) /\ Val(e).kind = kind THEN Some(Val(e).entry) ELSE None

TechSceneC(data, f, width, height) ==
    IF ~IsSome(data.diagramConfig) THEN None
    ELSE LET cfg == Val(data.diagramConfig)
             nodes == orEmpty(cfg.nodes)
             edges == orEmpty(cfg.edges)
             actions == orEmpty(cfg.actions)
             mapped == [i \in DOMAIN actions |->
                          actionEntryC(nodes, actions[i], f, width, height)]
         IN  Some([edges |-> [i \in DOMAIN edges |->
                                edgeEntryC(nodes, edges[i], i, f, width, height)],
                   nodes |-> [i \in DOMAIN nodes |->
                                nodeEntryC(actions, nodes[i], i, f, width, height)],
                   packets |-> [i \in DOMAIN actions |-> ofKind(mapped[i], "packet")],
                   labels |-> [i \in DOMAIN actions |-> ofKind(mapped[i], "label")]])

(***************************************************************************)
(* Scene: dispatch on the variant tag.  When the opacity cannot be         *)
(* computed the component throws before it returns its elements: the       *)
(* opacity and the width of the progress bar are then both None.           *)
(***************************************************************************)
\* remotion: interpolate(input, inputRange, outputRange) over several
\* breakpoints.  It throws unless inputRange is strictly increasing (None
\* here); otherwise it is linear on the segment found for the input, the
\* first and the last segment being extended beyond the range.
strictlyIncreasing(range) ==
    \A i \in 1..(Len(range) - 1) : range[i + 1] > range[i]

findRange(input, inputRange) ==
    LET S == {i \in 2..(Len(inputRange) - 1) : inputRange[i] >= input}
    IN  IF S = {} THEN Len(inputRange) - 1 ELSE Min(S) - 1

interpolateRange(input, inputRange, outputRange) ==
    IF ~strictlyIncreasing(inputRange) THEN None
    ELSE LET r == findRange(input, inputRange)
             t == Rat(input - inputRange[r], inputRange[r + 1] - inputRange[r])
         IN  Some(interpolate(t, RInt(outputRange[r]), RInt(outputRange[r + 1])))

\* const opacity = interpolate(frame, [0, 10, d - 10, d], [0, 1, 1, 0])
sceneOpacity(f, durationInFrames) ==
    interpolateRange(f, <<0, 10, durationInFrames - 10, durationInFrames>>,
                     <<0, 1, 1, 0>>)

\* const entrance = spring({frame, fps, config: {damping: 200}}): the
\* parameters of lineProgress, without a stagger.
sceneEntrance(f) == spring(lineProgress, f)

\* width: `${(frame / data.durationInFrames) * 100}%`
progressBarWidth(f, durationInFrames) == Rat(f * 100, durationInFrames)

Scene(variant, data, f, width, height) ==
    IF data.type = "tech_diagram"
    THEN [kind |-> "tech",
          diagram |-> IF variant = "part_000"
                      THEN TechScene(data, f, width, height)
                      ELSE TechSceneC(data, f, width, height)]
    ELSE [kind |-> "standard", type |-> data.type, frame |-> f,
          durationInFrames |-> data.durationInFrames,
          entrance |-> sceneEntrance(f),
          opacity |-> sceneOpacity(f, data.durationInFrames),
          barWidth |-> IF sceneOpacity(f, data.durationInFrames) = None
                       THEN None
                       ELSE Some(progressBarWidth(f, data.durationInFrames))]

(***************************************************************************)
(* MainComposition: one Sequence per scene, placed at the running offset.  *)
(***************************************************************************)
\* The counter kept across evaluations instead of being re-initialised.
offsetStartStale(left) == left

\* let currentFrame = 0, whatever an earlier evaluation left behind.
offsetStart(left) == 0

\* The offset taken after the increment instead of before it.
offsetOfAfter(scenes, i, start) == start + SumDur(SubSeq(scenes, 1, i))

\* const from = currentFrame; currentFrame += scene.durationInFrames
RECURSIVE offsetOf(_, _, _)
offsetOf(scenes, i, start) ==
    IF i = 1 THEN start
    ELSE offsetOf(scenes, i - 1, start) + scenes[i - 1].durationInFrames

\* <Sequence from durationInFrames>: its children are mounted on the frames
\* from .. from + durationInFrames - 1 and see the frame relative to from.
sequenceMounted(from, durationInFrames, f) ==
    from <= f /\ f < from + durationInFrames

MainComposition(data, variant, f, start) ==
    [i \in DOMAIN data.scenes |->
        LET from == offsetOf(data.scenes, i, start)
        IN  IF sequenceMounted(from, data.scenes[i].durationInFrames, f)
            THEN Some([scene |-> i - 1,
                       localFrame |-> f - from,
                       content |-> Scene(variant, data.scenes[i], f - from,
                                         data.width, data.height)])
            ELSE None]

(***************************************************************************)
(* GeneratorForm and generateVideoScript.                                  *)
(***************************************************************************)
\* String.prototype.trim; a string of the form is a sequence of characters
\* (a run of non-blank characters may stand as one element).
RECURSIVE trimStart(_)
trimStart(t) ==
    IF t # <<>> /\ Head(t) = " " THEN trimStart(Tail(t)) ELSE t

RECURSIVE trimEnd(_)
trimEnd(t) ==
    IF t # <<>> /\ t[Len(t)] = " " THEN trimEnd(SubSeq(t, 1, Len(t) - 1))
    ELSE t

\* The topic taken as typed.
trimNone(t) == t

trim(t) == trimEnd(trimStart(t))

\* Resolve Dimensions
dimensions(ratio) ==
    IF ratio = "16:9" THEN [width |-> 1920, height |-> 1080]
    ELSE IF ratio = "9:16" THEN [width |-> 1080, height |-> 1920]
    ELSE [width |-> 1080, height |-> 1080]

\* The reduce with the first scene left out of the sum.
totalDurationSkipFirst(scenes) ==
    IF scenes = <<>> THEN 0 ELSE SumDur(Tail(scenes))

\* geminiData.scenes.reduce((acc, scene) => acc + scene.durationInFrames, 0)
totalDurationOf(scenes) == SumDur(scenes)

EmptyDiagram == [nodes |-> Some(<<>>), edges |-> Some(<<>>), actions |-> Some(<<>>)]

\* x = []
alwaysEmptyArray(o) == Some(<<>>)

\* x = x || []
orEmptyArray(o) == IF IsSome(o) THEN o ELSE Some(<<>>)

ensureArrays(cfg) ==
    [nodes |-> orEmptyArray(cfg.nodes), edges |-> orEmptyArray(cfg.edges),
     actions |-> orEmptyArray(cfg.actions)]

\* Post-processing of unnamed/part_001: substitute an empty diagram.
postProcessScene(scene) ==
    IF scene.type = "tech_diagram"
    THEN [scene EXCEPT !.diagramConfig =
            Some(ensureArrays(IF IsSome(scene.diagramConfig)
                              THEN Val(scene.diagramConfig)
                              ELSE EmptyDiagram))]
    ELSE scene

\* Post-processing of services/geminiService.ts: downgrade the variant.
postProcessSceneG(scene) ==
    IF scene.type = "tech_diagram"
    THEN IF ~IsSome(scene.diagramConfig)
         THEN [scene EXCEPT !.type = "bullet_point"]
         ELSE [scene EXCEPT !.diagramConfig =
                 Some(ensureArrays(Val(scene.diagramConfig)))]
    ELSE scene

\* data.scenes = data.scenes.map(...)
generateVideoScript(variant, scenes) ==
    [i \in DOMAIN scenes |->
        IF variant = "part_001" THEN postProcessScene(scenes[i])
        ELSE postProcessSceneG(scenes[i])]

FallbackMessage == "Failed to generate video. Please check your API Key or try a different prompt."

\* The message of the error shown as it is, were it empty.
errorMessageRaw(message) == message

\* err.message || "Failed to generate video. ..."
errorMessage(message) == IF message = "" THEN FallbackMessage ELSE message

\* The VideoConfig built by handleSubmit from a response.
videoConfigOf(request, scenes) ==
    [topic |-> request.topic,
     totalDuration |-> totalDurationOf(scenes),
     width |-> dimensions(request.aspectRatio).width,
     height |-> dimensions(request.aspectRatio).height,
     fps |-> 30,
     scenes |-> scenes]

(***************************************************************************)
(* State machine.                                                          *)
(***************************************************************************)
\* One evaluation of MainComposition by the player at frame f.
evaluate(data, variant, f, left) ==
    MainComposition(data, variant, f, offsetStart(left))

\* The value of the running counter when scenes.map has finished.
counterAfter(data, left) == offsetStart(left) + SumDur(data.scenes)

\* What the host notes about a kept description as further frames are
\* evaluated: whether another frame came in between, and whether the kept
\* frame was evaluated again after that.
noted(p, f) ==
    IF p = None THEN None
    ELSE Some([Val(p) EXCEPT
                 !.between = @ \/ f # Val(p).frame,
                 !.again = @ \/ (Val(p).between /\ f = Val(p).frame)])

RenderFrame(f) ==
    /\ frame' = f
    /\ render' = evaluate(videoData, techVariant, f, currentFrame)
    /\ currentFrame' = counterAfter(videoData, currentFrame)
    /\ probe' = noted(probe, f)
    /\ UNCHANGED <<appVars, buildVars>>

\* The same evaluation, whose description the host keeps to compare later
\* evaluations of that frame against.
ProbeFrame(f) ==
    /\ probe = None
    /\ frame' = f
    /\ render' = evaluate(videoData, techVariant, f, currentFrame)
    /\ currentFrame' = counterAfter(videoData, currentFrame)
    /\ probe' = Some([frame |-> f, render |-> render', data |-> videoData,
                       between |-> FALSE, again |-> FALSE])
    /\ UNCHANGED <<appVars, buildVars>>

\* disabled={isGenerating} of the topic textarea.
topicDisabled(generating) == generating

\* The submit button left enabled during a generation.
submitDisabledOnBlank(generating, t) == trim(t) = <<>>

\* disabled={isGenerating || !topic.trim()} of the submit button.
submitDisabled(generating, t) == generating \/ trim(t) = <<>>

\* The sequence s without its k-th element.
dropAt(s, k) == SubSeq(s, 1, k - 1) \o SubSeq(s, k + 1, Len(s))

setTopic(t) ==
    /\ ~topicDisabled(isGenerating)
    /\ topic' = t
    /\ UNCHANGED <<videoData, isGenerating, aspectRatio, error, pending,
                   buildVars, frame, currentFrame, render, probe>>

setAspectRatio(r) ==
    /\ aspectRatio' = r
    /\ UNCHANGED <<videoData, isGenerating, topic, error, pending,
                   buildVars, frame, currentFrame, render, probe>>

\* handleSubmit without its setError(null).
handleSubmitKeepsError ==
    /\ ~submitDisabled(isGenerating, topic) \/ trim(topic) = <<>>
    /\ IF trim(topic) = <<>>
       THEN UNCHANGED <<isGenerating, pending>>
       ELSE /\ isGenerating' = TRUE
            /\ pending' = Append(pending,
                                 [topic |-> topic, aspectRatio |-> aspectRatio])
    /\ UNCHANGED <<videoData, topic, aspectRatio, error, buildVars, frame,
                   currentFrame, render, probe>>

\* handleSubmit up to its await.  pending holds the requests in flight, in
\* the order they were started.  The submit event reaches the handler when
\* the submit button is enabled; a submit of a blank topic is taken as well
\* (the button does not let it through, and the handler returns at once:
\* nothing changes either way).
handleSubmit ==
    /\ ~submitDisabled(isGenerating, topic) \/ trim(topic) = <<>>
    /\ IF trim(topic) = <<>>
       THEN UNCHANGED <<isGenerating, error, pending>>
       ELSE /\ isGenerating' = TRUE
            /\ error' = None
            /\ pending' = Append(pending,
                                 [topic |-> topic, aspectRatio |-> aspectRatio])
    /\ UNCHANGED <<videoData, topic, aspectRatio, buildVars, frame,
                   currentFrame, render, probe>>

\* A request in flight resolves with a parsed response: post-processing, the new
\* VideoConfig, onVideoGenerated, finally.  The composition is evaluated
\* again with the new data at the player's frame.
resolve(scenes) ==
    \E k \in DOMAIN pending :
    /\ LET data == generateVideoScript(serviceVariant, scenes)
           videoConfig == videoConfigOf(pending[k], data)
       IN  /\ videoData' = videoConfig
           /\ render' = evaluate(videoConfig, techVariant, frame, currentFrame)
           /\ currentFrame' = counterAfter(videoConfig, currentFrame)
    /\ isGenerating' = FALSE
    /\ pending' = dropAt(pending, k)
    /\ probe' = None
    /\ UNCHANGED <<topic, aspectRatio, error, buildVars, frame>>

\* The failure path without the finally block.
rejectNoFinally(message) ==
    \E k \in DOMAIN pending :
    /\ error' = Some(errorMessage(message))
    /\ pending' = dropAt(pending, k)
    /\ UNCHANGED <<videoData, isGenerating, topic, aspectRatio, buildVars,
                   frame, currentFrame, render, probe>>

\* A request in flight fails (network error, empty text, JSON parse error, no
\* scenes array): catch, finally.
reject(message) ==
    \E k \in DOMAIN pending :
    /\ error' = Some(errorMessage(message))
    /\ isGenerating' = FALSE
    /\ pending' = dropAt(pending, k)
    /\ UNCHANGED <<videoData, topic, aspectRatio, buildVars, frame,
                   currentFrame, render, probe>>

(***************************************************************************)
(* Inputs.                                                                 *)
(***************************************************************************)
SeqsUpTo(S, n) == UNION {[1..k -> S] : k \in 0..n}

NodeA == Node("a", "client", "A", 50, 15)

NodeB == Node("b", "database", "B", 50, 50)

TinyDiagram ==
    Diagram(<<NodeA, NodeB>>, <<Edge("a", "b")>>, <<Packet(1, 1, "a", "b", "x")>>)

PartialDiagram == [nodes |-> Some(<<NodeB>>), edges |-> None, actions |-> None]

Topics == {<<>>, <<" ">>, <<"r">>}

AspectRatios == {"1:1", "16:9"}

FailureMessages == {"No response from Gemini", ""}

\* Scenes a response can carry.
ResponseScenes ==
    {SceneData("bullet_point", d, None) : d \in {0, MaxDur}}
    \cup {SceneData("tech_diagram", 1, c) : c \in {None, Some(PartialDiagram)}}

Responses == SeqsUpTo(ResponseScenes, MaxRespScenes)

\* Frames the host may ask for: the player's range and one frame beyond
\* each end of it.
FrameRange(data) == -1 .. SumDur(data.scenes) + 1

MaxFrame == 1

(***************************************************************************)
(* Spec: the application, from the default configuration.                  *)
(***************************************************************************)
TechVariants == {"part_000", "Composition"}

ServiceVariants == {"part_001", "geminiService"}

InitOn(data, techs, services) ==
    /\ videoData = data
    /\ isGenerating = FALSE
    /\ topic = <<>>
    /\ aspectRatio = "1:1"
    /\ error = None
    /\ pending = None
    /\ techVariant \in techs
    /\ serviceVariant \in services
    /\ frame = 0
    /\ currentFrame = SumDur(data.scenes)
    /\ render = MainComposition(data, techVariant, 0, 0)
    /\ probe = None

Init == InitOn(INITIAL_DATA, TechVariants, ServiceVariants)

Next ==
    \/ \E t \in Topics : setTopic(t)
    \/ \E r \in AspectRatios : setAspectRatio(r)
    \/ handleSubmit
    \/ \E scenes \in Responses : resolve(scenes)
    \/ \E message \in FailureMessages : reject(message)
    \/ \E f \in FrameRange(videoData) : f <= MaxFrame /\ RenderFrame(f)

Spec == Init /\ [][Next]_vars

(***************************************************************************)
(* SpecSettling: the generator form when every request settles: the        *)
(* promise awaited by handleSubmit is fulfilled or rejected, and its       *)
(* continuation is run by the event loop.  The player stays on its frame.  *)
(***************************************************************************)
\* A response without scenes, one of a single scene, one of two.
SettlingResponses ==
    {<<>>,
     <<SceneData("bullet_point", MaxDur, None)>>,
     <<SceneData("tech_diagram", 1, None), SceneData("bullet_point", 0, None)>>}

settle ==
    \/ \E scenes \in SettlingResponses : resolve(scenes)
    \/ \E message \in FailureMessages : reject(message)

NextSettling ==
    \/ \E t \in Topics : setTopic(t)
    \/ \E r \in AspectRatios : setAspectRatio(r)
    \/ handleSubmit
    \/ settle

SpecSettling == Init /\ [][NextSettling]_vars /\ WF_vars(settle)

(***************************************************************************)
(* SpecTimeline: MainComposition on the scene lists a generation can       *)
(* deliver, evaluated by the host at any frame, in any order.              *)
(***************************************************************************)
TimelineScenes ==
    {SceneData("bullet_point", d, None) : d \in 0..MaxDur}
    \cup {SceneData("tech_diagram", 1, Some(TinyDiagram))}

GeneratedRequest == [topic |-> <<"r">>, aspectRatio |-> "1:1"]

TimelineConfigs ==
    {videoConfigOf(GeneratedRequest, scenes) :
        scenes \in SeqsUpTo(TimelineScenes, MaxScenes)}

InitTimeline ==
    \E data \in TimelineConfigs : InitOn(data, {"part_000"}, {"part_001"})

NextTimeline ==
    \/ \E f \in FrameRange(videoData) : RenderFrame(f)
    \/ \E f \in FrameRange(videoData) : ProbeFrame(f)

SpecTimeline == InitTimeline /\ [][NextTimeline]_vars

(***************************************************************************)
(* SpecDiagram: the diagram evaluators on the default configuration and on *)
(* small diagrams, evaluated by the host at any frame.                     *)
(***************************************************************************)
NodeLists == {<<NodeA, NodeB>>, <<NodeB, NodeA>>, <<NodeB>>}

EdgePool == {Edge(x, y) : x \in {"a", "b"}, y \in {"a", "b"}}

\* (startDelay, duration) of the actions drawn.
Timings == {<<1, MaxActDur>>, <<MaxDelay, 1>>}

ActionPool ==
    {Packet(t[1], t[2], "a", "b", "x") : t \in Timings}
    \cup {Targeted(type, t[1], t[2], "b", "y") :
            type \in {"highlight", "pulse", "show_label"}, t \in Timings}

FixedActions == <<Packet(1, 2, "a", "b", "x"), Targeted("highlight", 1, 1, "b", "y")>>

DiagramDuration == MaxDelay + MaxActDur + 2

\* A diagram whose first node has the empty string as its id.
EmptyIdDiagram ==
    Diagram(<<Node("", "client", "E", 50, 15), NodeB>>, <<Edge("", "b")>>,
            <<Packet(1, 1, "", "b", "x"), Targeted("highlight", 1, 1, "", "y"),
              Targeted("show_label", 1, 1, "", "y")>>)

\* Actions that name a node the diagram does not have, or name none.
MissingRefPool ==
    {Packet(1, MaxActDur, "a", "z", "x"), Packet(1, MaxActDur, Undefined, "b", "x")}
    \cup {Targeted(type, 1, MaxActDur, id, "y") :
            type \in {"highlight", "pulse", "show_label"},
            id \in {"z", Undefined}}

\* s with x inserted so that it stands at position k.
InsertAt(s, k, x) == SubSeq(s, 1, k - 1) \o <<x>> \o SubSeq(s, k, Len(s))

MissingRefDiagrams ==
    {Diagram(<<NodeA, NodeB>>, <<Edge("a", "b")>>, InsertAt(FixedActions, k, x)) :
        k \in 1..(Len(FixedActions) + 1), x \in MissingRefPool}

DiagramInputs ==
    {EmptyIdDiagram}
    \cup MissingRefDiagrams
    \cup {Diagram(nodes, edges, FixedActions) :
        nodes \in NodeLists, edges \in SeqsUpTo(EdgePool, MaxEdges)}
    \cup {Diagram(nodes, <<Edge("a", "b")>>, actions) :
            nodes \in NodeLists, actions \in SeqsUpTo(ActionPool, MaxActions)}

\* Payloads of a tech_diagram scene that lack the diagram or parts of it.
MissingPayloads ==
    {None,
     Some([nodes |-> None, edges |-> None, actions |-> None]),
     Some(PartialDiagram),
     Some([nodes |-> Some(<<NodeA, NodeB>>), edges |-> Some(<<Edge("a", "b")>>),
           actions |-> None])}

DiagramConfigs ==
    {videoConfigOf(GeneratedRequest,
                   <<SceneData("tech_diagram", DiagramDuration, c)>>) :
        c \in {Some(d) : d \in DiagramInputs} \cup MissingPayloads}

InitDiagram ==
    \E data \in DiagramConfigs \cup {INITIAL_DATA} : InitOn(data, TechVariants, {"part_001"})

\* Playback: the next frame, or a seek back to the start of the range or
\* to the frame before it.
Play == frame + 1 \in FrameRange(videoData) /\ RenderFrame(frame + 1)

Rewind == \E f \in {-1, 0} : f < frame /\ RenderFrame(f)

NextDiagram == Play \/ Rewind

SpecDiagram == InitDiagram /\ [][NextDiagram]_vars

(***************************************************************************)
(* SpecScene: one standard scene of any duration up to MaxSceneDur, played *)
(* by the host.                                                            *)
(***************************************************************************)
MaxSceneDur == 22

StandardTypes == {"intro", "bullet_point"}

SceneConfigs ==
    {videoConfigOf(GeneratedRequest, <<SceneData(type, d, None)>>) :
        type \in StandardTypes, d \in 1..MaxSceneDur}

InitScene ==
    \E data \in SceneConfigs : InitOn(data, {"part_000"}, {"part_001"})

SpecScene == InitScene /\ [][NextDiagram]_vars

(***************************************************************************)
(* Vocabulary of the properties.                                           *)
(***************************************************************************)
\* Indices of the scenes mounted by the last evaluation.
Mounted == {i \in DOMAIN render : render[i] # None}

AllPositive(scenes) == \A i \in DOMAIN scenes : scenes[i].durationInFrames > 0

\* Sum of the durations of the scenes before scene i.
PrefixSum(scenes, i) == SumDur(SubSeq(scenes, 1, i - 1))

LocalFrameOf(i) == Val(render[i]).localFrame

InSpan == 0 <= frame /\ frame < SumDur(videoData.scenes)

(***************************************************************************)
(* C1.  For a scene list with positive durations and a frame within the    *)
(* timeline span exactly one scene is mounted: the scene whose half-open   *)
(* interval [offset(i), offset(i) + duration(i)) contains the frame, at    *)
(* local frame = frame - offset(i).  At d0+d1 this is scene index 2 at     *)
(* local frame 0, at d0+d1-1 scene index 1 at local frame d1-1.            *)
(***************************************************************************)
C1_TimelineLocation ==
    LET scenes == videoData.scenes
        d(i) == scenes[i].durationInFrames
    IN  (AllPositive(scenes) /\ InSpan) =>
          /\ Cardinality(Mounted) = 1
          /\ \A i \in Mounted :
               /\ PrefixSum(scenes, i) <= frame
               /\ frame < PrefixSum(scenes, i) + d(i)
               /\ LocalFrameOf(i) = frame - PrefixSum(scenes, i)
               /\ Val(render[i]).scene = i - 1
          /\ (Len(scenes) >= 3 /\ frame = d(1) + d(2)) =>
               (Mounted = {3} /\ LocalFrameOf(3) = 0)
          /\ (Len(scenes) >= 2 /\ frame = d(1) + d(2) - 1) =>
               (Mounted = {2} /\ LocalFrameOf(2) = d(2) - 1)

C1_Witness ==
    /\ Len(videoData.scenes) = 3
    /\ AllPositive(videoData.scenes)
    /\ videoData.scenes[2].durationInFrames = 2
    /\ frame = videoData.scenes[1].durationInFrames
               + videoData.scenes[2].durationInFrames
    /\ Mounted = {3}
    /\ LocalFrameOf(3) = 0

(***************************************************************************)
(* C2.  For every VideoConfig the application holds, the offsets computed  *)
(* by MainComposition are strictly increasing and contiguous: offset(0) is *)
(* 0, offset(i+1) = offset(i) + duration(i), and every duration(i) > 0.    *)
(***************************************************************************)
C2_OffsetsStrictlyIncreasing ==
    LET scenes == videoData.scenes
        offset(i) == offsetOf(scenes, i, offsetStart(currentFrame))
    IN  /\ scenes # <<>> => offset(1) = 0
        /\ \A i \in DOMAIN scenes :
             /\ scenes[i].durationInFrames > 0
             /\ i < Len(scenes) =>
                  /\ offset(i + 1) = offset(i) + scenes[i].durationInFrames
                  /\ offset(i + 1) > offset(i)

(***************************************************************************)
(* C3.  A frame below 0 or at/after the total duration is clamped: the     *)
(* composition mounts the first scene at local frame 0, respectively the   *)
(* last scene at its last local frame.                                     *)
(***************************************************************************)
C3_OutOfDomainClamped ==
    LET scenes == videoData.scenes
        n == Len(scenes)
    IN  (n >= 1 /\ AllPositive(scenes)) =>
          /\ frame < 0 => (Mounted = {1} /\ LocalFrameOf(1) = 0)
          /\ frame >= SumDur(scenes) =>
               (Mounted = {n}
                /\ LocalFrameOf(n) = scenes[n].durationInFrames - 1)

(***************************************************************************)
(* C4.  Referential transparency: whatever frames were evaluated in        *)
(* between, evaluating a frame again yields the description it yielded     *)
(* before, and the configuration is the one it was then.                   *)
(***************************************************************************)
C4_ReferentialTransparency ==
    probe # None =>
      /\ Val(probe).data = videoData
      /\ Val(probe).frame = frame => render = Val(probe).render

C4_Witness ==
    /\ probe # None
    /\ Val(probe).again
    /\ Val(probe).frame = frame
    /\ Len(videoData.scenes) >= 2
    /\ Mounted = {2}

(***************************************************************************)
(* C5.  The totalDuration of the held VideoConfig, which is the duration   *)
(* given to the player, is the sum of durationInFrames over its scenes.    *)
(***************************************************************************)
\* <Player durationInFrames={videoData.totalDuration} />
playerDuration == videoData.totalDuration

DurationSum(scenes) ==
    LET acc[i \in 0..Len(scenes)] ==
            IF i = 0 THEN 0 ELSE acc[i - 1] + scenes[i].durationInFrames
    IN  acc[Len(scenes)]

C5_TotalDurationIsSum ==
    /\ videoData.totalDuration = DurationSum(videoData.scenes)
    /\ playerDuration = DurationSum(videoData.scenes)

C5_Witness ==
    /\ videoData # INITIAL_DATA
    /\ ~isGenerating
    /\ Len(videoData.scenes) = 2
    /\ AllPositive(videoData.scenes)
    /\ playerDuration = DurationSum(videoData.scenes)

(***************************************************************************)
(* Vocabulary of the diagram properties.                                   *)
(***************************************************************************)
\* Mounted tech_diagram scenes that rendered a diagram.
TechMounted ==
    {i \in Mounted : /\ Val(render[i]).content.kind = "tech"
                     /\ IsSome(Val(render[i]).content.diagram)}

DescOf(i) == Val(Val(render[i]).content.diagram)

NodesOf(i) == orEmpty(Val(videoData.scenes[i].diagramConfig).nodes)

EdgesOf(i) == orEmpty(Val(videoData.scenes[i].diagramConfig).edges)

ActionsOf(i) == orEmpty(Val(videoData.scenes[i].diagramConfig).actions)

NodeIds(i) == {NodesOf(i)[j].id : j \in DOMAIN NodesOf(i)}

\* The first declared node with the given id.
FirstNode(i, id) ==
    LET nodes == NodesOf(i)
    IN  nodes[CHOOSE j \in DOMAIN nodes :
                 nodes[j].id = id /\ \A m \in 1..(j - 1) : nodes[m].id # id]

\* Packet actions of scene i whose two endpoints are non-empty ids that
\* resolve.
ResolvedPackets(i) ==
    {k \in DOMAIN ActionsOf(i) :
        /\ ActionsOf(i)[k].type = "packet"
        /\ ActionsOf(i)[k].fromId # ""
        /\ ActionsOf(i)[k].toId # ""
        /\ ActionsOf(i)[k].fromId \in NodeIds(i)
        /\ ActionsOf(i)[k].toId \in NodeIds(i)}

\* Packet actions of scene i whose two endpoints resolve.
ResolvingPackets(i) ==
    {k \in DOMAIN ActionsOf(i) :
        /\ ActionsOf(i)[k].type = "packet"
        /\ ActionsOf(i)[k].fromId \in NodeIds(i)
        /\ ActionsOf(i)[k].toId \in NodeIds(i)}

PacketRendered(i, k) == DescOf(i).packets[k] # None

\* The Redis-lock scene is on screen.
RedisAt(f) == videoData = INITIAL_DATA /\ frame = f

(***************************************************************************)
(* C6 (as claimed).  A packet whose endpoints resolve is rendered if and   *)
(* only if startDelay <= f < startDelay + duration.                        *)
(***************************************************************************)
C6_PacketWindowHalfOpen ==
    \A i \in TechMounted : \A k \in ResolvingPackets(i) :
        LET a == ActionsOf(i)[k]
            f == LocalFrameOf(i)
        IN  PacketRendered(i, k) <=>
              (a.startDelay <= f /\ f < a.startDelay + a.duration)

(***************************************************************************)
(* C6 (amended).  A packet whose endpoints are non-empty ids that resolve  *)
(* is rendered if and only if startDelay <= f <= startDelay + duration:    *)
(* never before startDelay (no packet at frame 0 of the Redis-lock         *)
(* example), still on the frame startDelay + duration, never after it.     *)
(***************************************************************************)
C6_PacketWindowClosed ==
    /\ \A i \in TechMounted : \A k \in ResolvedPackets(i) :
         LET a == ActionsOf(i)[k]
             f == LocalFrameOf(i)
         IN  PacketRendered(i, k) <=>
               (a.startDelay <= f /\ f <= a.startDelay + a.duration)
    /\ RedisAt(0) =>
         /\ TechMounted = {1}
         /\ \A k \in DOMAIN ActionsOf(1) : ~PacketRendered(1, k)

C6_Witness ==
    \E i \in TechMounted : \E k \in ResolvedPackets(i) :
        /\ LocalFrameOf(i) = ActionsOf(i)[k].startDelay + ActionsOf(i)[k].duration
        /\ PacketRendered(i, k)

(***************************************************************************)
(* C7.  A rendered packet is at the linear interpolation between the pixel *)
(* anchors of its from and to nodes with progress (f - startDelay) /       *)
(* duration.  For the packet from (50,15) to (50,50) with startDelay 30    *)
(* and duration 40 this is, in percent, (50,15) at frame 30, (50,32.5) at  *)
(* frame 50 and (50,50) at frame 70.                                       *)
(***************************************************************************)
\* value = num / den, for a rational value in lowest terms or not.
RatIs(value, num, den) == value.n * den = num * value.d

\* position (in pixels) = pct percent of dim, pct given in tenths.
AtPercentTenths(value, tenths, dim) == RatIs(value, tenths * dim, 1000)

C7_PacketInterpolation ==
    /\ \A i \in TechMounted : \A k \in ResolvedPackets(i) :
         PacketRendered(i, k) =>
           LET a == ActionsOf(i)[k]
               e == Val(DescOf(i).packets[k])
               from == FirstNode(i, a.fromId)
               to == FirstNode(i, a.toId)
               el == LocalFrameOf(i) - a.startDelay
               w == videoData.width
               h == videoData.height
           IN  /\ RatIs(e.left,
                        from.x * w * a.duration + el * (to.x - from.x) * w,
                        100 * a.duration)
               /\ RatIs(e.top,
                        from.y * h * a.duration + el * (to.y - from.y) * h,
                        100 * a.duration)
    /\ \A f \in {30, 50, 70} :
         RedisAt(f) =>
           /\ TechMounted = {1}
           /\ PacketRendered(1, 1)
           /\ AtPercentTenths(Val(DescOf(1).packets[1]).left, 500, 1080)
           /\ AtPercentTenths(Val(DescOf(1).packets[1]).top,
                              IF f = 30 THEN 150 ELSE IF f = 50 THEN 325 ELSE 500,
                              1080)

C7_Witness ==
    /\ RedisAt(50)
    /\ TechMounted = {1}
    /\ PacketRendered(1, 1)
    /\ Val(DescOf(1).packets[1]).top = [n |-> 351, d |-> 1]

(***************************************************************************)
(* C8.  A node targeted by a highlight action is in its highlighted state  *)
(* on every frame of [startDelay, startDelay + duration), and, when no     *)
(* other highlight or pulse targets it, on no other frame.  For            *)
(* {startDelay 70, duration 20} on 'redis': highlighted on 70..89, not at  *)
(* 69 and not at 90.                                                       *)
(***************************************************************************)
Emphasising(a) == a.type \in {"highlight", "pulse"}

C8_HighlightWindow ==
    /\ \A i \in TechMounted :
         \A k \in DOMAIN ActionsOf(i) : \A j \in DOMAIN NodesOf(i) :
           LET a == ActionsOf(i)[k]
               f == LocalFrameOf(i)
               inWindow == a.startDelay <= f /\ f < a.startDelay + a.duration
               sole == \A m \in DOMAIN ActionsOf(i) \ {k} :
                          ~(Emphasising(ActionsOf(i)[m])
                            /\ ActionsOf(i)[m].targetId = a.targetId)
           IN  (a.type = "highlight" /\ NodesOf(i)[j].id = a.targetId) =>
                 /\ inWindow => DescOf(i).nodes[j].active
                 /\ (sole /\ DescOf(i).nodes[j].active) => inWindow
    /\ \A f \in 69..90 :
         RedisAt(f) =>
           /\ TechMounted = {1}
           /\ DescOf(1).nodes[1].id = "redis"
           /\ DescOf(1).nodes[1].active <=> f \in 70..89

C8_Witness ==
    /\ RedisAt(89)
    /\ TechMounted = {1}
    /\ DescOf(1).nodes[1].active

(***************************************************************************)
(* C9.  Redis-lock scenario at local frame 80: 'redis' is highlighted and  *)
(* exactly one SETNX packet is rendered, the one from clientC to redis;    *)
(* the SETNX packets of clientA and clientB are no longer rendered.        *)
(***************************************************************************)
C9_RedisLockAt80 ==
    RedisAt(80) =>
      /\ TechMounted = {1}
      /\ DescOf(1).nodes[1].id = "redis"
      /\ DescOf(1).nodes[1].active
      /\ {k \in DOMAIN ActionsOf(1) :
            PacketRendered(1, k) /\ ActionsOf(1)[k].label = "SETNX"} = {3}
      /\ Val(DescOf(1).packets[3]).fromId = "clientC"
      /\ Val(DescOf(1).packets[3]).toId = "redis"
      /\ ~PacketRendered(1, 1)
      /\ ~PacketRendered(1, 2)

C9_Witness ==
    /\ RedisAt(80)
    /\ TechMounted = {1}
    /\ PacketRendered(1, 3)
    /\ DescOf(1).nodes[1].active

(***************************************************************************)
(* C10.  An edge is rendered if and only if both its fromId and its toId   *)
(* are ids of nodes of the diagram; an edge with an unresolved endpoint    *)
(* yields no entry and has no influence on the entries of the nodes, of    *)
(* the other edges and of the actions: they are what they are with any     *)
(* other edge in its place.                                                *)
(***************************************************************************)
EdgeRendered(i, k) == DescOf(i).edges[k] # None

Dangling(i, k) ==
    EdgesOf(i)[k].fromId \notin NodeIds(i) \/ EdgesOf(i)[k].toId \notin NodeIds(i)

\* The description of scene i with edge k replaced by e.
WithEdge(i, k, e) ==
    LET cfg == Val(videoData.scenes[i].diagramConfig)
        scene == [videoData.scenes[i] EXCEPT
                    !.diagramConfig =
                       Some([cfg EXCEPT !.edges = Some([EdgesOf(i) EXCEPT ![k] = e])])]
    IN  Val(Scene(techVariant, scene, LocalFrameOf(i),
                  videoData.width, videoData.height).diagram)

C10_MissingEdgeReference ==
    \A i \in TechMounted : \A k \in DOMAIN EdgesOf(i) :
        /\ EdgeRendered(i, k) <=> ~Dangling(i, k)
        /\ Dangling(i, k) =>
             \A e \in EdgePool :
                LET alt == WithEdge(i, k, e)
                IN  /\ alt.nodes = DescOf(i).nodes
                    /\ alt.packets = DescOf(i).packets
                    /\ alt.labels = DescOf(i).labels
                    /\ \A m \in DOMAIN EdgesOf(i) \ {k} :
                         alt.edges[m] = DescOf(i).edges[m]

C10_Witness ==
    \E i \in TechMounted :
        /\ Len(EdgesOf(i)) = 2
        /\ Dangling(i, 1)
        /\ ~EdgeRendered(i, 1)
        /\ EdgeRendered(i, 2)
        /\ \E j \in DOMAIN NodesOf(i) : DescOf(i).nodes[j].active

(***************************************************************************)
(* C11.  An action that names a node the diagram does not have, or names   *)
(* none (a packet by fromId or toId, a show_label, highlight or pulse by   *)
(* targetId), yields no entry at any frame and emphasises no node, and the *)
(* entries of the nodes, of the edges and of the other actions are those   *)
(* of the diagram without that action.                                     *)
(***************************************************************************)
DanglingAction(i, k) ==
    LET a == ActionsOf(i)[k]
    IN  IF a.type = "packet"
        THEN a.fromId \notin NodeIds(i) \/ a.toId \notin NodeIds(i)
        ELSE a.targetId \notin NodeIds(i)

\* s without its k-th element, and the position of the m-th element then.
Without(s, k) == SubSeq(s, 1, k - 1) \o SubSeq(s, k + 1, Len(s))

Shifted(k, m) == IF m > k THEN m - 1 ELSE m

\* The description of scene i with action k taken out of the diagram.
WithoutAction(i, k) ==
    LET cfg == Val(videoData.scenes[i].diagramConfig)
        scene == [videoData.scenes[i] EXCEPT
                    !.diagramConfig =
                       Some([cfg EXCEPT !.actions = Some(Without(ActionsOf(i), k))])]
    IN  Val(Scene(techVariant, scene, LocalFrameOf(i),
                  videoData.width, videoData.height).diagram)

C11_MissingActionReference ==
    \A i \in TechMounted : \A k \in DOMAIN ActionsOf(i) :
        DanglingAction(i, k) =>
          LET alt == WithoutAction(i, k)
              d == DescOf(i)
          IN  /\ d.packets[k] = None
              /\ d.labels[k] = None
              /\ \A j \in DOMAIN NodesOf(i) : d.nodes[j].by # k
              /\ alt.edges = d.edges
              /\ \A j \in DOMAIN NodesOf(i) :
                   alt.nodes[j] = [d.nodes[j] EXCEPT !.by = Shifted(k, @)]
              /\ \A m \in DOMAIN ActionsOf(i) \ {k} :
                   /\ alt.packets[Shifted(k, m)] = d.packets[m]
                   /\ alt.labels[Shifted(k, m)] = d.labels[m]

\* A dangling action inside its window, first in the list, while a packet
\* and a highlight declared after it are on screen.
C11_Witness ==
    \E i \in TechMounted :
        /\ Len(ActionsOf(i)) = 3
        /\ DanglingAction(i, 1)
        /\ ActionsOf(i)[1].type # "packet"
        /\ ActionsOf(i)[1].startDelay <= LocalFrameOf(i)
        /\ LocalFrameOf(i) < ActionsOf(i)[1].startDelay + ActionsOf(i)[1].duration
        /\ PacketRendered(i, 2)
        /\ \E j \in DOMAIN NodesOf(i) : DescOf(i).nodes[j].by = 3

(***************************************************************************)
(* C12.  A tech_diagram scene whose diagramConfig is absent, or whose      *)
(* nodes, edges or actions are absent, is rendered at every frame as the   *)
(* same scene with the absent parts replaced by those of the empty diagram *)
(* {nodes: [], edges: [], actions: []}.                                    *)
(***************************************************************************)
\* The scene with every absent part of its payload made an empty sequence.
Completed(scene) ==
    LET cfg == IF IsSome(scene.diagramConfig) THEN Val(scene.diagramConfig)
               ELSE [nodes |-> None, edges |-> None, actions |-> None]
    IN  [scene EXCEPT !.diagramConfig =
           Some([nodes |-> Some(orEmpty(cfg.nodes)),
                 edges |-> Some(orEmpty(cfg.edges)),
                 actions |-> Some(orEmpty(cfg.actions))])]

C12_MissingPayloadIsEmptyDiagram ==
    \A i \in Mounted :
        videoData.scenes[i].type = "tech_diagram" =>
          Val(render[i]).content =
            Scene(techVariant, Completed(videoData.scenes[i]), LocalFrameOf(i),
                  videoData.width, videoData.height)

(***************************************************************************)
(* C13.  After the post-processing of a generation response every          *)
(* tech_diagram scene of the new configuration carries a diagramConfig     *)
(* whose nodes, edges and actions are all present, and the scenes are the  *)
(* ones every version of generateVideoScript makes of that response: a     *)
(* tech_diagram scene without payload meets the same fallback in each.     *)
(***************************************************************************)
FullPayload(scene) ==
    /\ IsSome(scene.diagramConfig)
    /\ IsSome(Val(scene.diagramConfig).nodes)
    /\ IsSome(Val(scene.diagramConfig).edges)
    /\ IsSome(Val(scene.diagramConfig).actions)

C13_FallbackConsistent ==
    [][\A scenes \in Responses :
          resolve(scenes) =>
            /\ \A i \in DOMAIN videoData'.scenes :
                 videoData'.scenes[i].type = "tech_diagram" =>
                   FullPayload(videoData'.scenes[i])
            /\ \A v \in ServiceVariants :
                 videoData'.scenes = generateVideoScript(v, scenes)]_vars

(***************************************************************************)
(* C14.  A generation request that fails leaves the held VideoConfig as it *)
(* was, records a non-empty error message and ends the attempt with the    *)
(* topic still in the form; with no request under way and a non-blank      *)
(* topic a submit starts a request, and a response to a request under way  *)
(* replaces the configuration.                                             *)
(***************************************************************************)
\* handleSubmit on a non-blank topic: a request is under way afterwards.
submitted == handleSubmit /\ pending' # None

\* A response arrives and the held configuration is the one built from it.
replaced(scenes) ==
    /\ resolve(scenes)
    /\ videoData'.scenes = generateVideoScript(serviceVariant, scenes)

\* A response of one scene.
OneSceneResponse == <<SceneData("bullet_point", MaxDur, None)>>

C14_FailureKeepsConfig ==
    /\ [][\A message \in FailureMessages :
             reject(message) =>
               /\ videoData' = videoData
               /\ error' # None
               /\ Val(error') # ""
               /\ ~isGenerating'
               /\ pending' = None
               /\ trim(topic') # <<>>]_vars
    /\ []((pending = None /\ trim(topic) # <<>>) => ENABLED submitted)
    /\ [](pending # None => ENABLED replaced(OneSceneResponse))

\* A generated configuration is held and the attempt after it has failed.
C14_Witness ==
    /\ error # None
    /\ ~isGenerating
    /\ pending = None
    /\ videoData # INITIAL_DATA
    /\ Len(videoData.scenes) = 2

(***************************************************************************)
(* Vocabulary of the action phases.                                        *)
(***************************************************************************)
\* The ids action k of scene i uses.
IdsOf(i, k) ==
    LET a == ActionsOf(i)[k]
    IN  IF a.type = "packet" THEN {a.fromId, a.toId} ELSE {a.targetId}

\* No other highlight or pulse names the target of action k.
SoleOn(i, k) ==
    \A m \in DOMAIN ActionsOf(i) \ {k} :
        ~(Emphasising(ActionsOf(i)[m])
          /\ ActionsOf(i)[m].targetId = ActionsOf(i)[k].targetId)

\* Actions whose ids resolve and whose effect no other action can hide.
Resolving(i) ==
    {k \in DOMAIN ActionsOf(i) :
        /\ IdsOf(i, k) \subseteq NodeIds(i)
        /\ Emphasising(ActionsOf(i)[k]) => SoleOn(i, k)}

\* The effect of action k is present in the description of scene i.
Effect(i, k) ==
    LET a == ActionsOf(i)[k]
    IN  IF a.type = "packet" THEN DescOf(i).packets[k] # None
        ELSE IF a.type = "show_label" THEN DescOf(i).labels[k] # None
        ELSE \E j \in DOMAIN NodesOf(i) :
                NodesOf(i)[j].id = a.targetId /\ DescOf(i).nodes[j].active

\* The last evaluation depends on the configuration and the frame alone.
FrameDriven == render = MainComposition(videoData, techVariant, frame, 0)

(***************************************************************************)
(* C15 (as claimed).  Every action is Pending for f < startDelay, Active   *)
(* for startDelay <= f < startDelay + duration and Finished from           *)
(* startDelay + duration on: its effect is present on the Active frames    *)
(* and on no other, whatever frames were evaluated before.                 *)
(***************************************************************************)
C15_ActionStateMachine ==
    /\ FrameDriven
    /\ \A i \in TechMounted : \A k \in Resolving(i) :
         LET a == ActionsOf(i)[k]
             f == LocalFrameOf(i)
         IN  Effect(i, k) <=>
               (a.startDelay <= f /\ f < a.startDelay + a.duration)

(***************************************************************************)
(* C15 (amended).  The phase of an action is a function of the local frame *)
(* alone: Pending for f < startDelay; Active up to startDelay + duration - *)
(* 1 for a highlight or pulse, up to startDelay + duration for a packet,   *)
(* and at every later frame for a show_label; Finished after that.  For    *)
(* an action with non-empty resolving ids (a pulse only in the evaluator   *)
(* of part_000, which alone implements it) the effect is present exactly   *)
(* on the Active frames.  From one frame to the next the phase never moves *)
(* backwards and never passes from Pending to Finished when duration >= 1; *)
(* a seek back returns an earlier or the same phase, and the description   *)
(* after it is the one of that frame.                                      *)
(***************************************************************************)
Phase(a, f) ==
    IF f < a.startDelay THEN "Pending"
    ELSE IF a.type = "show_label" THEN "Active"
    ELSE IF a.type = "packet" /\ f <= a.startDelay + a.duration THEN "Active"
    ELSE IF f < a.startDelay + a.duration THEN "Active"
    ELSE "Finished"

Rank(phase) == IF phase = "Pending" THEN 0 ELSE IF phase = "Active" THEN 1 ELSE 2

\* Actions of the amended statement.
Phased(i) ==
    {k \in Resolving(i) :
        /\ "" \notin IdsOf(i, k)
        /\ ActionsOf(i)[k].type = "pulse" => techVariant = "part_000"}

EffectFollowsPhase ==
    \A i \in TechMounted : \A k \in Phased(i) :
        Effect(i, k) <=> Phase(ActionsOf(i)[k], LocalFrameOf(i)) = "Active"

C15_ActionPhases ==
    /\ [](FrameDriven /\ EffectFollowsPhase)
    /\ [][\A i \in TechMounted : \A k \in DOMAIN ActionsOf(i) :
             LET a == ActionsOf(i)[k]
                 before == Phase(a, frame)
                 after == Phase(a, frame')
             IN  /\ frame' = frame + 1 =>
                      /\ Rank(after) >= Rank(before)
                      /\ (a.duration >= 1 /\ before = "Pending") =>
                           after # "Finished"
                 /\ frame' < frame => Rank(after) <= Rank(before)]_vars

\* A packet on the last frame of its closed window while a show_label past
\* its duration is still on screen.
C15_Witness ==
    \E i \in TechMounted : \E k, m \in Phased(i) :
        /\ ActionsOf(i)[k].type = "packet"
        /\ LocalFrameOf(i) = ActionsOf(i)[k].startDelay + ActionsOf(i)[k].duration
        /\ Effect(i, k)
        /\ ActionsOf(i)[m].type = "show_label"
        /\ LocalFrameOf(i) >= ActionsOf(i)[m].startDelay + ActionsOf(i)[m].duration
        /\ Effect(i, m)

(***************************************************************************)
(* C16 (as claimed).  A show_label whose targetId resolves is rendered at  *)
(* every local frame f >= startDelay, also past startDelay + duration, and *)
(* at no frame before startDelay.  The LOCKED label of the Redis-lock      *)
(* example is rendered at frame 85, at frame 175 and at every later frame. *)
(***************************************************************************)
LabelRendered(i, k) == DescOf(i).labels[k] # None

\* The LOCKED label (the fifth action) from its startDelay to the last frame.
LockedStays ==
    \A f \in 0..239 :
        RedisAt(f) =>
          /\ TechMounted = {1}
          /\ ActionsOf(1)[5].label = "LOCKED"
          /\ LabelRendered(1, 5) <=> f >= 75
          /\ f >= 75 => Val(DescOf(1).labels[5]).text = "LOCKED"

C16_LabelPersists ==
    /\ \A i \in TechMounted : \A k \in DOMAIN ActionsOf(i) :
         LET a == ActionsOf(i)[k]
         IN  (a.type = "show_label" /\ a.targetId \in NodeIds(i)) =>
               (LabelRendered(i, k) <=> LocalFrameOf(i) >= a.startDelay)
    /\ LockedStays

(***************************************************************************)
(* C16 (amended).  A show_label whose targetId is a non-empty id that      *)
(* resolves is rendered at every local frame f >= startDelay, also past    *)
(* startDelay + duration, and at no frame before startDelay.  The LOCKED   *)
(* label of the Redis-lock example is rendered at frame 85, at frame 175   *)
(* and at every later frame of the scene.                                  *)
(***************************************************************************)
C16_NamedLabelPersists ==
    /\ \A i \in TechMounted : \A k \in DOMAIN ActionsOf(i) :
         LET a == ActionsOf(i)[k]
         IN  (a.type = "show_label" /\ a.targetId # ""
              /\ a.targetId \in NodeIds(i)) =>
               (LabelRendered(i, k) <=> LocalFrameOf(i) >= a.startDelay)
    /\ LockedStays

C16_Witness ==
    /\ RedisAt(175)
    /\ TechMounted = {1}
    /\ LabelRendered(1, 5)
    /\ Val(DescOf(1).labels[5]).text = "LOCKED"
    /\ 175 >= ActionsOf(1)[5].startDelay + ActionsOf(1)[5].duration

(***************************************************************************)
(* C17.  The scale of a node is its entrance scale multiplied by the       *)
(* emphasis factor: a node whose entrance has not started (f <= index *    *)
(* stagger, entrance progress 0) has scale exactly 0, also while a         *)
(* highlight or pulse that targets it is active.                           *)
(***************************************************************************)
\* The entrance of node entry e has not started: spring() has run no step
\* and returns its start value 0.
AtRest(e) == e.springFrame <= 0

\* Values Math.sin(...) * 0.1 can take for node entry e.
PulseScales(e) ==
    IF e.pulseArg = None \/ e.pulseArg = Some(0) THEN {RInt(0)}
    ELSE {Rat(-1, 10), RInt(0), Rat(1, 10)}

\* The scale of node entry e for a given entrance progress.
ScaleOf(e, entrance, pulseScale) ==
    IF e.multiplicative THEN finalScale(entrance, e.emphasis)
    ELSE scaleVal(entrance, e.emphasis, pulseScale)

C17_EmphasisMultiplicative ==
    \A i \in TechMounted : \A j \in DOMAIN NodesOf(i) :
        LET e == DescOf(i).nodes[j]
        IN  /\ e.multiplicative
            /\ AtRest(e) =>
                 \A p \in PulseScales(e) : ScaleOf(e, RInt(0), p) = RInt(0)

(***************************************************************************)
(* C18.  Whenever the window of a pulse contains the local frame, the node *)
(* it targets carries the oscillation sin(k * (f - startDelay)) of that    *)
(* pulse, whatever other highlight or pulse actions target the node and    *)
(* wherever they stand in the list; a highlight whose window contains the  *)
(* frame emphasises its node likewise.                                     *)
(***************************************************************************)
InWindow(a, f) == a.startDelay <= f /\ f < a.startDelay + a.duration

EdgeDelay(k) ==
    (k - 1) * (IF techVariant = "part_000" THEN EdgeStagger ELSE EdgeStaggerC)

Ceiling == IF techVariant = "part_000" THEN Rat(4, 10) ELSE Rat(5, 10)

C19_EdgeOpacityCeiling ==
    \A i \in TechMounted : \A k \in DOMAIN EdgesOf(i) :
        EdgeRendered(i, k) =>
          LET e == Val(DescOf(i).edges[k])
          IN  /\ RLeq(RInt(0), e.opacity)
              /\ RLeq(e.opacity, Ceiling)
              /\ LocalFrameOf(i) <= EdgeDelay(k) => e.opacity = RInt(0)

(***************************************************************************)
(* C20.  For a standard scene of positive duration d, also d <= 20, the    *)
(* opacity at every local frame is computed without failure and is the     *)
(* trapezoid over the breakpoints 0, 10, d - 10, d: within [0, 1], 0 at    *)
(* frame 0, f / 10 up to frame 10, 1 from frame 10 to d - 10, and          *)
(* (d - f) / 10 from there to d.                                           *)
(***************************************************************************)
StandardMounted ==
    {i \in Mounted : Val(render[i]).content.kind = "standard"}

C20_OpacityTrapezoid ==
    \A i \in StandardMounted :
        LET d == videoData.scenes[i].durationInFrames
            f == LocalFrameOf(i)
            o == Val(render[i]).content.opacity
        IN  d > 0 =>
              /\ o # None
              /\ RLeq(RInt(0), Val(o)) /\ RLeq(Val(o), RInt(1))
              /\ f = 0 => Val(o) = RInt(0)
              /\ f <= 10 => Val(o) = Rat(f, 10)
              /\ (10 <= f /\ f <= d - 10) => Val(o) = RInt(1)
              /\ f >= d - 10 => Val(o) = Rat(d - f, 10)

(***************************************************************************)
(* C21.  For a standard scene of duration d the width of the progress bar  *)
(* at every local frame f of [0, d) is computed without error and is the   *)
(* fraction f / d of the container: 0 at frame 0, within [0, 1), strictly  *)
(* increasing in f.                                                        *)
(***************************************************************************)
RLess(a, b) == RLeq(a, b) /\ a # b

C21_ProgressBar ==
    \A i \in StandardMounted :
        LET d == videoData.scenes[i].durationInFrames
            f == LocalFrameOf(i)
            w == Val(render[i]).content.barWidth
        IN  /\ w # None
            /\ RatIs(Val(w), 100 * f, d)
            /\ f = 0 => Val(w) = RInt(0)
            /\ RLeq(RInt(0), Val(w)) /\ RLess(Val(w), RInt(100))
            /\ f + 1 < d => RLess(Val(w), progressBarWidth(f + 1, d))

(***************************************************************************)
(* C22.  A spring is exactly 0 while its elapsed frames are <= 0, so the   *)
(* edge of index i is at progress 0 (opacity 0) for f <= i * stagger in    *)
(* both evaluators.  With damping 200 (the edges of Composition.tsx, the   *)
(* entrance of Scene) the progress never decreases from one frame to the   *)
(* next and never exceeds 1.                                               *)
(***************************************************************************)
Damped(e) == spring(lineProgress, e)

DampedMonotone ==
    \A e \in -2 .. Len(lineProgress) + 2 :
        /\ e <= 0 => Damped(e) = RInt(0) /\ sceneEntrance(e) = RInt(0)
        /\ sceneEntrance(e) = Damped(e)
        /\ RLeq(RInt(0), Damped(e))
        /\ RLeq(Damped(e), Damped(e + 1))
        /\ RLeq(Damped(e), RInt(1))

Shown(desc) ==
    [edges |-> {k \in DOMAIN desc.edges : desc.edges[k] # None},
     packets |-> {<<k, Val(desc.packets[k]).left, Val(desc.packets[k]).top>> :
                    k \in {m \in DOMAIN desc.packets : desc.packets[m] # None}},
     labels |-> {k \in DOMAIN desc.labels : desc.labels[k] # None},
     emphasised |-> {j \in DOMAIN desc.nodes : desc.nodes[j].active}]

FirstIndex(i, id) ==
    CHOOSE j \in DOMAIN NodesOf(i) :
        NodesOf(i)[j].id = id /\ \A m \in 1..(j - 1) : NodesOf(i)[m].id # id

AnchorsFixed ==
    \A i \in TechMounted : \A j \in DOMAIN NodesOf(i) :
        /\ RatIs(DescOf(i).nodes[j].left, NodesOf(i)[j].x * videoData.width, 100)
        /\ RatIs(DescOf(i).nodes[j].top, NodesOf(i)[j].y * videoData.height, 100)

InFlight == Len(pending)

C25_GeneratingTerminates ==
    /\ [](isGenerating <=> InFlight > 0)
    /\ [][/\ (handleSubmit /\ InFlight' > InFlight) => isGenerating'
          /\ (\E scenes \in SettlingResponses : resolve(scenes)) =>
                ~isGenerating'
          /\ (\E message \in FailureMessages : reject(message)) =>
                ~isGenerating']_vars
    /\ isGenerating ~> ~isGenerating

\* A generation has come to its end by a response, with nothing in flight.
C25_Witness ==
    /\ ~isGenerating
    /\ InFlight = 0
    /\ error = None
    /\ videoData # INITIAL_DATA
    /\ videoData.topic = <<"r">>

(***************************************************************************)
(* C26.  At most one generation request is in flight.  While isGenerating  *)
(* is true no request can be started and the topic cannot be edited; the   *)
(* held configuration is only ever replaced on behalf of the most recently *)
(* started request, which is then the only one in flight; and isGenerating *)
(* is never cleared while a request is still pending.                      *)
(***************************************************************************)
\* A step of handleSubmit that starts a request.
started == handleSubmit /\ InFlight' = InFlight + 1

edited == \E t \in Topics : setTopic(t)

C26_OneRequestInFlight ==
    /\ [](InFlight <= 1)
    /\ [](isGenerating => (~ENABLED started /\ ~ENABLED edited))
    /\ [][/\ videoData' # videoData =>
               /\ InFlight = 1
               /\ InFlight' = 0
               /\ videoData' = videoConfigOf(pending[InFlight], videoData'.scenes)
          /\ (isGenerating /\ ~isGenerating') => InFlight' = 0]_vars

\* A second generation is under way after the first replaced the default
\* configuration.
C26_Witness ==
    /\ isGenerating
    /\ InFlight = 1
    /\ videoData # INITIAL_DATA
    /\ pending[1].aspectRatio = "16:9"
    /\ videoData.width = videoData.height

(***************************************************************************)
(* C27.  A submit with an empty or whitespace-only topic is a no-op: the   *)
(* handler runs, no request is issued, and the held configuration,         *)
(* isGenerating and the displayed error stay as they were.                 *)
(***************************************************************************)
Blank(t) == \A k \in DOMAIN t : t[k] = " "

\* What a submit must leave alone on a blank topic.
kept == <<videoData, isGenerating, error, pending>>

C27_BlankSubmitNoOp ==
    /\ [](Blank(topic) =>
            /\ ENABLED handleSubmit
            /\ ~ENABLED started
            /\ ~ENABLED (handleSubmit /\ kept' # kept))
    /\ [][(Blank(topic) /\ handleSubmit) => kept' = kept]_vars

\* A whitespace-only topic is in the form while a generated configuration
\* is held and an error is displayed.
C27_Witness ==
    /\ topic = <<" ">>
    /\ InFlight = 0
    /\ error # None
    /\ videoData # INITIAL_DATA

(***************************************************************************)
(* C28.  Starting a generation clears the error message; a failed attempt  *)
(* sets a non-empty message, the failure's own or the fallback text; a     *)
(* successful attempt leaves it cleared; nothing else touches it.  So no   *)
(* error is displayed while a request is in flight, and with none in       *)
(* flight an error is displayed exactly when the attempt completed last    *)
(* failed.                                                                 *)
(***************************************************************************)
C28_ErrorTracksLatest ==
    /\ [](InFlight > 0 => error = None)
    /\ [][/\ started => error' = None
          /\ \A message \in FailureMessages :
               reject(message) =>
                 /\ error' = Some(IF message = "" THEN FallbackMessage
                                  ELSE message)
                 /\ Val(error') # ""
          /\ \A scenes \in SettlingResponses :
               resolve(scenes) => error' = None
          /\ InFlight' = InFlight => error' = error]_vars

\* An attempt has failed without a message of its own: the fallback text
\* is displayed.
C28_Witness ==
    /\ InFlight = 0
    /\ ~isGenerating
    /\ error = Some(FallbackMessage)

(***************************************************************************)
(* C29.  In both versions of generateVideoScript the post-processing of a  *)
(* response keeps the number of scenes, their order and every              *)
(* durationInFrames, leaves every scene that is not a tech_diagram and     *)
(* every tech_diagram with nodes, edges and actions as it is, and applied  *)
(* to its own output changes nothing.  The scenes the application holds    *)
(* are such outputs.                                                       *)
(***************************************************************************)
\* Scenes of a response, a well-formed tech_diagram among them.
ScriptScenes ==
    ResponseScenes \cup {SceneData("tech_diagram", MaxDur, Some(TinyDiagram))}

ScriptInputs == SeqsUpTo(ScriptScenes, MaxRespScenes)

WellFormed(scene) == scene.type = "tech_diagram" /\ FullPayload(scene)

Normalizes(variant, scenes) ==
    LET out == generateVideoScript(variant, scenes)
    IN  /\ Len(out) = Len(scenes)
        /\ \A i \in DOMAIN scenes :
             /\ out[i].durationInFrames = scenes[i].durationInFrames
             /\ out[i].type \in {scenes[i].type, "bullet_point"}
             /\ (scenes[i].type # "tech_diagram" \/ WellFormed(scenes[i])) =>
                  out[i] = scenes[i]
             /\ out[i].type = "tech_diagram" => WellFormed(out[i])
        /\ \A v \in ServiceVariants : generateVideoScript(v, out) = out

PostProcessingNormalizes ==
    \A variant \in ServiceVariants : \A scenes \in ScriptInputs :
        Normalizes(variant, scenes)

C29_PostProcessingIsNormalization ==
    /\ PostProcessingNormalizes
    /\ Normalizes(serviceVariant, videoData.scenes)
    /\ generateVideoScript(serviceVariant, videoData.scenes) = videoData.scenes

\* The held scenes came out of the post-processing of a response whose
\* tech_diagram lacked its edges and actions.
C29_Witness ==
    /\ videoData # INITIAL_DATA
    /\ Len(videoData.scenes) = 2
    /\ videoData.scenes[1].type = "tech_diagram"
    /\ videoData.scenes[1].diagramConfig
         = Some([nodes |-> Some(<<NodeB>>), edges |-> Some(<<>>),
                 actions |-> Some(<<>>)])
    /\ videoData.scenes[2].durationInFrames = 0

(***************************************************************************)
(* C30.  After any sequence of generation attempts the configuration held  *)
(* for the player has at least one scene and a totalDuration of at least   *)
(* 1: a response with no scenes, or whose durations sum to 0, never        *)
(* becomes the player's configuration.                                     *)
(***************************************************************************)
C30_HeldConfigPlayable ==
    /\ Len(videoData.scenes) >= 1
    /\ videoData.totalDuration >= 1
    /\ playerDuration >= 1

====
